---- MODULE Spec2Model ----
(***************************************************************************)
(* A model of the skillz extensions: the session-activity recorder         *)
(* (pi/extensions/recorder/recorder.ts), the Kagi search client            *)
(* (pi/extensions/kagi-search/kagi-search.ts) and the tool operations      *)
(* fetch_url, github_search_code, ast_grep and pexpect_*.                  *)
(*                                                                         *)
(* Each component has its own specification over the same variables; the   *)
(* variables of the other components stay at their initial value.          *)
(***************************************************************************)
EXTENDS Integers, Sequences, FiniteSets, TLC

\* ------------------------------------------------------------------ bounds
MaxTime == 2
MaxTurns == 1
MaxMessages == 2
MaxModelChanges == 1
MaxPending == 1
MaxTotal == 2
MaxStarts == 2
MaxFaults == 1
MaxInvocations == 2
MaxToolRuns == 3
MaxBlocks == 3
MaxLimit == 2
MaxMatches == 3
MaxLines == 3

\* ------------------------------------------------------- program constants
MAX_RESULT_SIZE == 50 * 1024
\* ast-grep.ts 202: params.limit ?? 50
DEFAULT_LIMIT == 50

VARIABLES
    db,        \* recorder.ts `db`: the in-memory sql.js database, or NoDb
    file,      \* the backing file ~/.pi/agent/recorder.db, or NoFile
    state,     \* recorder.ts `state`: the in-memory correlation state
    sqljs,     \* recorder.ts `SQL`, `sqlJsAvailable`
    now,       \* the clock read by Date.now()
    pending,   \* session_start handlers suspended at `await initDatabase()`
    last,      \* what the most recent handler run did (history variable)
    hist,      \* what the host has done over the whole run (history variable)
    faults,    \* how many more handler runs may see a statement or file write fail
    kagi,      \* kagi-search.ts: the cached client, the clients, the running invocations
    tool,      \* the tool operation in progress (fetch_url, github_search_code, ...)
    parse      \* KagiClient.search: the response being scanned for results

recVars == <<db, file, state, sqljs, now, pending, last, hist, faults>>
vars == <<db, file, state, sqljs, now, pending, last, hist, faults, kagi, tool, parse>>

\* -------------------------------------------------------------- SQL values
NULL == -1                       \* SQL NULL / JS null in an integer column
NoSession == "null"              \* state.sessionId === null
NoDb == [closed |-> TRUE]        \* db === null
NoFile == [absent |-> TRUE]      \* recorder.db does not exist

SessionIds == {"s1", "s2"}
CallIds == {"c1"}
Models == {"m1"}

\* ------------------------------------------------------------------- texts
\* A string is a sequence of pieces; a piece is n characters of kind c.  The
\* length of a string is the sum of its pieces' n, so strings around the 50 KB
\* cap are represented exactly.
Piece(c, n) == [c |-> c, n |-> n]
Newline == Piece("LF", 1)

RECURSIVE TLen(_)
TLen(t) == IF t = <<>> THEN 0 ELSE Head(t).n + TLen(Tail(t))

\* String.prototype.substring(0, k)
RECURSIVE Substring0(_, _)
Substring0(t, k) ==
    IF t = <<>> \/ k <= 0 THEN <<>>
    ELSE IF Head(t).n <= k THEN <<Head(t)>> \o Substring0(Tail(t), k - Head(t).n)
    ELSE <<Piece(Head(t).c, k)>>

\* the same string with adjacent pieces of one kind merged and empty pieces dropped
RECURSIVE Norm(_)
Norm(t) ==
    IF t = <<>> THEN <<>>
    ELSE IF Head(t).n = 0 THEN Norm(Tail(t))
    ELSE LET r == Norm(Tail(t)) IN
         IF r # <<>> /\ Head(r).c = Head(t).c
         THEN <<Piece(Head(t).c, Head(t).n + Head(r).n)>> \o Tail(r)
         ELSE <<Head(t)>> \o r

\* "\n... [truncated at 50KB]"
TruncationMarker == <<Newline, Piece("... [truncated at 50KB]", 23)>>

\* the string stored as it is
TruncateNever(s) == s

\* recorder.ts 220-222 and 285-287: cap a string at MAX_RESULT_SIZE
Truncate(s) ==
    IF TLen(s) > MAX_RESULT_SIZE
    THEN Substring0(s, MAX_RESULT_SIZE) \o TruncationMarker
    ELSE s

\* Array.prototype.join("\n")
RECURSIVE JoinLines(_)
JoinLines(texts) ==
    IF texts = <<>> THEN <<>>
    ELSE IF Len(texts) = 1 THEN Head(texts)
    ELSE Head(texts) \o <<Newline>> \o JoinLines(Tail(texts))

\* recorder.ts 212-216: the text of every item of type "text" with a non-empty text
RECURSIVE TextItems(_)
TextItems(content) ==
    IF content = <<>> THEN <<>>
    ELSE IF Head(content).type = "text" /\ TLen(Head(content).text) > 0
         THEN <<Head(content).text>> \o TextItems(Tail(content))
         ELSE TextItems(Tail(content))

extractTextContent(content) == Truncate(JoinLines(TextItems(content)))

TextItem(t) == [type |-> "text", text |-> t]
ImageItem == [type |-> "image", text |-> <<>>]

TShort == <<Piece("a", 1)>>
TAtCap == <<Piece("a", MAX_RESULT_SIZE)>>
TOverCap == <<Piece("a", MAX_RESULT_SIZE), Piece("b", 1)>>
InputTexts == {TShort, TAtCap, TOverCap}

\* content arrays of an assistant message or a tool result
Contents ==
    { <<>>,
      <<TextItem(TShort)>>,
      <<TextItem(<<Piece("a", MAX_RESULT_SIZE - 1)>>), ImageItem, TextItem(<<Piece("b", 1)>>)>> }

\* --------------------------------------------------------- the SQL store
\* The tables of SCHEMA (recorder.ts 55-124).  Columns no handler reads back and
\* no statement computes from (session_file, cwd, tool_name, input_json,
\* model_provider/model_id and stop_reason of turns) are left out.  `raw` is not
\* a column: it remembers the text a stored content was made from.
EmptyDb ==
    [ sessions |-> <<>>, turns |-> <<>>, tool_calls |-> <<>>, messages |-> <<>>,
      model_changes |-> <<>>,
      seq |-> [turns |-> 0, messages |-> 0, model_changes |-> 0],  \* sqlite_sequence
      last_rowid |-> 0,                                             \* last_insert_rowid()
      schema |-> TRUE ]                  \* db.exec(SCHEMA) went through on this image

Range(s) == {s[i] : i \in 1..Len(s)}

RECURSIVE SelectSeq2(_, _)
\* the rows of table t that satisfy Keep, in order: Keep is a set of rows
SelectSeq2(t, keep) ==
    IF t = <<>> THEN <<>>
    ELSE IF Head(t) \in keep THEN <<Head(t)>> \o SelectSeq2(Tail(t), keep)
    ELSE SelectSeq2(Tail(t), keep)

MaxOf(S) == IF S = {} THEN 0 ELSE CHOOSE m \in S : \A x \in S : x <= m

\* A statement's outcome: ok = FALSE when SQLite raises (a constraint fails).
Done(d) == [ok |-> TRUE, db |-> d]
Raise(d) == [ok |-> FALSE, db |-> d]

\* the INSERT without OR REPLACE on a table whose id is not a key: the row
\* with the same id stays
InsertOrReplaceSessionPlainInsert(d, sid, t, model) ==
    LET rid == MaxOf({r.rowid : r \in Range(d.sessions)}) + 1
        row == [ rowid |-> rid, id |-> sid, started_at |-> t, ended_at |-> NULL,
                 model |-> model, total_input_tokens |-> 0,
                 total_output_tokens |-> 0, total_cost |-> 0 ]
    IN Done([d EXCEPT !.sessions = Append(d.sessions, row), !.last_rowid = rid])

\* an upsert that keeps the columns the statement does not name
InsertOrReplaceSessionKeepingTotals(d, sid, t, model) ==
    IF \E r \in Range(d.sessions) : r.id = sid
    THEN Done([d EXCEPT !.sessions =
                 [i \in 1..Len(d.sessions) |->
                     IF d.sessions[i].id = sid
                     THEN [d.sessions[i] EXCEPT !.started_at = t, !.model = model]
                     ELSE d.sessions[i]]])
    ELSE InsertOrReplaceSessionPlainInsert(d, sid, t, model)

\* INSERT OR REPLACE INTO sessions (id, session_file, cwd, started_at,
\* model_provider, model_id): the row with the same primary key is deleted,
\* the new row takes the column defaults (ended_at NULL, totals 0).
InsertOrReplaceSession(d, sid, t, model) ==
    LET kept == SelectSeq2(d.sessions, {r \in Range(d.sessions) : r.id # sid})
        rid == MaxOf({r.rowid : r \in Range(kept)}) + 1
        row == [ rowid |-> rid, id |-> sid, started_at |-> t, ended_at |-> NULL,
                 model |-> model, total_input_tokens |-> 0,
                 total_output_tokens |-> 0, total_cost |-> 0 ]
    IN Done([d EXCEPT !.sessions = Append(kept, row), !.last_rowid = rid])

\* DELETE FROM sessions WHERE id = ? in the place of the UPDATE
UpdateSessionEndDeletes(d, sid, t) ==
    Done([d EXCEPT !.sessions = SelectSeq2(d.sessions, {r \in Range(d.sessions) : r.id # sid})])

\* UPDATE sessions SET ended_at = ? WHERE id = ?
UpdateSessionEnd(d, sid, t) ==
    Done([d EXCEPT !.sessions =
            [i \in 1..Len(d.sessions) |->
                IF d.sessions[i].id = sid
                THEN [d.sessions[i] EXCEPT !.ended_at = t]
                ELSE d.sessions[i]]])

\* UPDATE sessions SET total_x = total_x + ? ... WHERE id = ?
UpdateSessionTotals(d, sid, u) ==
    Done([d EXCEPT !.sessions =
            [i \in 1..Len(d.sessions) |->
                IF d.sessions[i].id = sid
                THEN [d.sessions[i] EXCEPT
                        !.total_input_tokens = @ + u.input,
                        !.total_output_tokens = @ + u.output,
                        !.total_cost = @ + u.cost]
                ELSE d.sessions[i]]])

\* INSERT INTO turns (session_id, turn_index, started_at): id is AUTOINCREMENT
InsertTurn(d, sid, idx, t) ==
    LET id == d.seq.turns + 1
        row == [ id |-> id, session_id |-> sid, turn_index |-> idx,
                 started_at |-> t, ended_at |-> NULL, duration_ms |-> NULL,
                 input_tokens |-> 0, output_tokens |-> 0, cost |-> 0 ]
    IN Done([d EXCEPT !.turns = Append(d.turns, row), !.seq.turns = id,
                      !.last_rowid = id])

\* the UPDATE of turns without `ended_at = ?` in its SET list
UpdateTurnWithoutEnd(d, id, endedAt, dur, u) ==
    Done([d EXCEPT !.turns =
            [i \in 1..Len(d.turns) |->
                IF d.turns[i].id = id
                THEN [d.turns[i] EXCEPT
                        !.duration_ms = dur,
                        !.input_tokens = u.input, !.output_tokens = u.output,
                        !.cost = u.cost]
                ELSE d.turns[i]]])

\* UPDATE turns SET ended_at, duration_ms, ..., input_tokens, output_tokens,
\* cost, stop_reason WHERE id = ?
UpdateTurn(d, id, endedAt, dur, u) ==
    Done([d EXCEPT !.turns =
            [i \in 1..Len(d.turns) |->
                IF d.turns[i].id = id
                THEN [d.turns[i] EXCEPT
                        !.ended_at = endedAt, !.duration_ms = dur,
                        !.input_tokens = u.input, !.output_tokens = u.output,
                        !.cost = u.cost]
                ELSE d.turns[i]]])

\* INSERT INTO messages (session_id, role, content, [turn_id,] timestamp)
InsertMessage(d, sid, role, content, turnId, t, raw) ==
    LET id == d.seq.messages + 1
        row == [ id |-> id, session_id |-> sid, role |-> role, content |-> content,
                 turn_id |-> turnId, timestamp |-> t, raw |-> raw ]
    IN Done([d EXCEPT !.messages = Append(d.messages, row), !.seq.messages = id,
                      !.last_rowid = id])

\* INSERT INTO tool_calls (id, session_id, turn_id, tool_name, input_json,
\* started_at): id is the primary key, a second row with it is refused
InsertToolCall(d, id, sid, turnId, t) ==
    IF \E r \in Range(d.tool_calls) : r.id = id THEN Raise(d)
    ELSE LET rid == Len(d.tool_calls) + 1
             row == [ id |-> id, session_id |-> sid, turn_id |-> turnId,
                      started_at |-> t, ended_at |-> NULL, duration_ms |-> NULL,
                      is_error |-> 0, result_text |-> <<>>, raw |-> <<>> ]
         IN Done([d EXCEPT !.tool_calls = Append(d.tool_calls, row),
                           !.last_rowid = rid])

\* UPDATE tool_calls SET ended_at, duration_ms, is_error, result_text WHERE id = ?
UpdateToolCall(d, id, endedAt, dur, isError, text, raw) ==
    Done([d EXCEPT !.tool_calls =
            [i \in 1..Len(d.tool_calls) |->
                IF d.tool_calls[i].id = id
                THEN [d.tool_calls[i] EXCEPT
                        !.ended_at = endedAt, !.duration_ms = dur,
                        !.is_error = isError, !.result_text = text, !.raw = raw]
                ELSE d.tool_calls[i]]])

\* INSERT INTO model_changes (session_id, timestamp, from_*, to_*)
InsertModelChange(d, sid, t, from, to) ==
    LET id == d.seq.model_changes + 1
        row == [ id |-> id, session_id |-> sid, timestamp |-> t,
                 from_model |-> from, to_model |-> to ]
    IN Done([d EXCEPT !.model_changes = Append(d.model_changes, row),
                      !.seq.model_changes = id, !.last_rowid = id])

\* db.run(sql, params) for the statements the handlers issue
Run(d, stmt) ==
    IF ~d.schema THEN Raise(d) ELSE
    CASE stmt.op = "insert_session" ->
            InsertOrReplaceSession(d, stmt.sid, stmt.t, stmt.model)
      [] stmt.op = "end_session" -> UpdateSessionEnd(d, stmt.sid, stmt.t)
      [] stmt.op = "add_totals" -> UpdateSessionTotals(d, stmt.sid, stmt.u)
      [] stmt.op = "insert_turn" -> InsertTurn(d, stmt.sid, stmt.idx, stmt.t)
      [] stmt.op = "update_turn" -> UpdateTurn(d, stmt.id, stmt.t, stmt.dur, stmt.u)
      [] stmt.op = "insert_message" ->
            InsertMessage(d, stmt.sid, stmt.role, stmt.content, stmt.turn, stmt.t, stmt.raw)
      [] stmt.op = "insert_tool_call" ->
            InsertToolCall(d, stmt.id, stmt.sid, stmt.turn, stmt.t)
      [] stmt.op = "update_tool_call" ->
            UpdateToolCall(d, stmt.id, stmt.t, stmt.dur, stmt.err, stmt.text, stmt.raw)
      [] stmt.op = "insert_model_change" ->
            InsertModelChange(d, stmt.sid, stmt.t, stmt.from, stmt.to)

\* ------------------------------------------------- recorder: helpers
\* which statements and file writes of one handler run are made to fail
Inject == IF faults > 0 THEN BOOLEAN ELSE {FALSE}

\* recorder.ts 198-206 with the try/catch removed: the error leaves safeRun
safeRunNoCatch(d, stmt, inject) ==
    IF d = NoDb THEN [db |-> d, failed |-> FALSE, threw |-> FALSE]
    ELSE LET r == Run(d, stmt) IN
         IF inject \/ ~r.ok THEN [db |-> d, failed |-> TRUE, threw |-> TRUE]
         ELSE [db |-> r.db, failed |-> FALSE, threw |-> FALSE]

\* recorder.ts 198-206: run one statement, log and swallow its error
safeRun(d, stmt, inject) ==
    IF d = NoDb THEN [db |-> d, failed |-> FALSE, threw |-> FALSE]
    ELSE LET r == Run(d, stmt) IN
         IF inject \/ ~r.ok THEN [db |-> d, failed |-> TRUE, threw |-> FALSE]
         ELSE [db |-> r.db, failed |-> FALSE, threw |-> FALSE]

\* db.export(): the tables; last_insert_rowid() belongs to the connection
Snapshot(d) == [d EXCEPT !.last_rowid = 0]

\* the write left out
persistDatabaseSkipped(d, f, inject) == [file |-> f, failed |-> FALSE, threw |-> FALSE]

\* recorder.ts 186-195: write the whole database to the file, swallow an error
persistDatabase(d, f, inject) ==
    IF d = NoDb THEN [file |-> f, failed |-> FALSE, threw |-> FALSE]
    ELSE IF inject THEN [file |-> f, failed |-> TRUE, threw |-> FALSE]
    ELSE [file |-> Snapshot(d), failed |-> FALSE, threw |-> FALSE]

\* recorder.ts 228-239
getLastInsertId(d) == IF d = NoDb THEN NULL ELSE d.last_rowid

\* The body of a handler's try block is a chain of steps over a context: the
\* database, the file, the statements run so far (ran), the positions in ran of
\* those that failed, and whether an error is on its way to the catch block.
Begin(d, f) ==
    [ db |-> d, file |-> f, ran |-> <<>>, failed |-> {}, threw |-> FALSE,
      injected |-> FALSE ]

Then(c, stmt, inject) ==
    IF c.threw THEN c
    ELSE LET r == safeRun(c.db, stmt, inject) IN
         [ db |-> r.db, file |-> c.file, ran |-> Append(c.ran, stmt.op),
           failed |-> IF r.failed THEN c.failed \cup {Len(c.ran) + 1} ELSE c.failed,
           threw |-> r.threw, injected |-> c.injected \/ inject ]

ThenPersist(c, inject) ==
    IF c.threw THEN c
    ELSE LET r == persistDatabase(c.db, c.file, inject) IN
         [ db |-> c.db, file |-> r.file, ran |-> Append(c.ran, "persist"),
           failed |-> IF r.failed THEN c.failed \cup {Len(c.ran) + 1} ELSE c.failed,
           threw |-> r.threw, injected |-> c.injected \/ inject ]

\* recorder.ts 181: db.exec(SCHEMA) is not wrapped: if it throws (the file read
\* is not a database), db stays assigned and the error leaves initDatabase
ThenSchema(c, inject) ==
    IF c.threw THEN c
    ELSE IF inject \/ ~c.db.schema
    THEN [ db |-> [c.db EXCEPT !.schema = FALSE], file |-> c.file,
           ran |-> Append(c.ran, "schema"),
           failed |-> c.failed \cup {Len(c.ran) + 1}, threw |-> TRUE,
           injected |-> c.injected \/ inject ]
    ELSE [c EXCEPT !.ran = Append(c.ran, "schema")]

\* What a finished handler run reports: ev the event, acted whether it passed
\* its guard, t the clock, turn and call the row it was about, host the turn the host had
\* open, msg whether a message was to be stored, caught whether its catch
\* block ran, injected whether a failure was injected, start the start time a
\* tool result found remembered, escaped whether an error
\* left the handler (every handler body is
\* one try/catch, recorder.ts 244-276, 283-298, ..., so none does).
Report(ev, turn, call, c) ==
    [ ev |-> ev, acted |-> TRUE, t |-> now, turn |-> turn, call |-> call,
      host |-> NULL, msg |-> FALSE, ran |-> c.ran, failed |-> c.failed,
      caught |-> c.threw, escaped |-> FALSE, injected |-> c.injected, start |-> NULL ]

Skipped(ev) ==
    [ ev |-> ev, acted |-> FALSE, t |-> now, turn |-> NULL, call |-> "",
      host |-> NULL, msg |-> FALSE, ran |-> <<>>, failed |-> {}, caught |-> FALSE,
      escaped |-> FALSE, injected |-> FALSE, start |-> NULL ]

NoStarts == [c \in {} |-> 0]

\* msg.usage?.input ?? 0, msg.usage?.output ?? 0, msg.usage?.cost?.total ?? 0
NoUsage == [absent |-> TRUE]
UsageOf(u) == IF u = NoUsage THEN [input |-> 0, output |-> 0, cost |-> 0] ELSE u
Usages == {NoUsage, [input |-> 1, output |-> 2, cost |-> 3]}

\* the guard that takes any remembered value for a current turn
NoCurrentTurnNever(st) == FALSE

\* !state.currentTurnId
NoCurrentTurn(st) == st.currentTurnId = NULL \/ st.currentTurnId = 0

\* the guard without its test of state.sessionId
InactiveWithoutSession == db = NoDb

\* !db || !state.sessionId
Inactive == db = NoDb \/ state.sessionId = NoSession

\* ------------------------------------------------- recorder: handlers
RecFrame ==
    /\ faults' = IF last'.injected THEN faults - 1 ELSE faults
    /\ UNCHANGED <<kagi, tool, parse>>

\* a step that runs no handler to its end
IdleFrame == UNCHANGED <<last, faults, kagi, tool, parse>>

\* the session-start handlers suspended at the await, without the i-th
Without(q, i) == [j \in 1..(Len(q) - 1) |-> IF j < i THEN q[j] ELSE q[j + 1]]

\* recorder.ts 243-245 with 160-163 and 143-150: session_start calls
\* initDatabase() and is suspended at its await.  What it waits for is decided
\* by the tests made before the await: `if (db) return`, `if (SQL) return SQL`,
\* `if (!sqlJsAvailable) throw`.
SessionStartAwait(sid, model) ==
    /\ Len(pending) < MaxPending
    /\ hist.starts < MaxStarts
    /\ pending' = Append(pending,
          [ sid |-> sid, model |-> model,
            stage |-> IF db # NoDb THEN "dbReady"
                      ELSE IF sqljs.SQL THEN "sqlCached"
                      ELSE IF ~sqljs.available THEN "sqlUnavailable"
                      ELSE "sqlImport" ])
    /\ hist' = [hist EXCEPT !.starts = @ + 1]
    /\ UNCHANGED <<db, file, state, sqljs, now>>
    /\ IdleFrame

\* the reset that leaves the current turn as it is
ResetStateKeepsTurn(st, sid) ==
    [st EXCEPT !.sessionId = sid, !.toolCallStarts = NoStarts]

\* recorder.ts 247-249: the new session id, no current turn, no start times
ResetState(st, sid) ==
    [st EXCEPT !.sessionId = sid, !.currentTurnId = NULL, !.toolCallStarts = NoStarts]

\* recorder.ts 247-276: the handler's body once initDatabase() has settled
\* with context c0; if it threw, the catch block runs instead
SessionStartBody(p, c0, i1, i2, opened) ==
    LET c1 == Then(c0,
                   [op |-> "insert_session", sid |-> p.sid, t |-> now, model |-> p.model],
                   i1)
        c2 == ThenPersist(c1, i2)
    IN /\ state' = IF c0.threw THEN state ELSE ResetState(state, p.sid)
       /\ db' = c2.db
       /\ file' = c2.file
       /\ last' = Report("session_start", NULL, "", c2)
       /\ hist' = [hist EXCEPT
              !.opens = IF opened /\ @ < 2 THEN @ + 1 ELSE @,
              !.unrecorded = IF ~c0.threw /\ c1.failed # c0.failed
                             THEN @ \cup {p.sid} ELSE @,
              !.replaced = @ \/ (c0.db # NoDb /\ ~c0.threw /\ c1.failed = c0.failed
                                  /\ \E r \in Range(c0.db.sessions) : r.id = p.sid)]

\* recorder.ts 266-276: initDatabase() threw before db was assigned; the catch
\* block reports it
SessionStartFailed(inject) ==
    /\ last' = [Skipped("session_start") EXCEPT !.acted = TRUE, !.caught = TRUE,
                                                !.injected = inject]
    /\ UNCHANGED <<db, file, state, hist>>

\* recorder.ts 173-178: read recorder.db if it exists, else create an empty
\* database
OpenStore(f) == IF f = NoFile THEN EmptyDb ELSE f

\* the i-th suspended session_start handler resumes
SessionStartResume(i) ==
    /\ i \in 1..Len(pending)
    /\ pending' = Without(pending, i)
    /\ LET p == pending[i] IN
       \/ /\ p.stage = "dbReady"
          /\ \E i1, i2 \in Inject : SessionStartBody(p, Begin(db, file), i1, i2, FALSE)
          /\ UNCHANGED sqljs
       \/ /\ p.stage = "sqlUnavailable"
          /\ SessionStartFailed(FALSE)
          /\ UNCHANGED sqljs
       \/ /\ p.stage = "sqlImport"
          /\ sqljs' = [SQL |-> FALSE, available |-> FALSE]
          /\ SessionStartFailed(FALSE)
       \/ /\ p.stage \in {"sqlImport", "sqlCached"}
          /\ sqljs' = [sqljs EXCEPT !.SQL = TRUE]
          /\ \E readFail \in Inject :
                IF readFail
                THEN SessionStartFailed(TRUE)
                ELSE \E i0, i1, i2, i3 \in Inject :
                        SessionStartBody(p,
                            ThenPersist(ThenSchema(Begin(OpenStore(file), file), i0), i1),
                            i2, i3, TRUE)
    /\ UNCHANGED now
    /\ RecFrame

\* recorder.ts 280-299
Input(text) ==
    /\ db # NoDb => Len(db.messages) < MaxMessages
    /\ IF Inactive
       THEN last' = Skipped("input") /\ UNCHANGED <<db, file>>
       ELSE \E i1, i2 \in Inject :
              LET c1 == Then(Begin(db, file),
                             [ op |-> "insert_message", sid |-> state.sessionId,
                               role |-> "user", content |-> Truncate(text),
                               turn |-> NULL, t |-> now, raw |-> text ], i1)
                  c2 == ThenPersist(c1, i2)
              IN db' = c2.db /\ file' = c2.file /\ last' = Report("input", NULL, "", c2)
    /\ UNCHANGED <<state, sqljs, now, pending, hist>>
    /\ RecFrame

\* recorder.ts 302-321
SessionShutdown ==
    /\ IF Inactive
       THEN last' = Skipped("session_shutdown") /\ UNCHANGED <<db, file, state>>
       ELSE \E i1, i2 \in Inject :
              LET c1 == Then(Begin(db, file),
                             [op |-> "end_session", sid |-> state.sessionId, t |-> now], i1)
                  c2 == ThenPersist(c1, i2)
              IN /\ file' = c2.file
                 /\ last' = Report("session_shutdown", NULL, "", c2)
                 /\ IF c2.threw
                    THEN db' = c2.db /\ UNCHANGED state
                    ELSE db' = NoDb /\ state' = [state EXCEPT !.sessionId = NoSession]
    /\ UNCHANGED <<sqljs, now, pending, hist>>
    /\ RecFrame

\* recorder.ts 324-340.  event.turnIndex is the host's count of the turns of
\* the session, event.timestamp its clock.
TurnStart ==
    /\ db # NoDb => Len(db.turns) < MaxTurns
    /\ IF Inactive
       THEN /\ last' = Skipped("turn_start")
            /\ hist' = [hist EXCEPT !.hostTurn = NULL]
            /\ UNCHANGED <<db, state>>
       ELSE \E i1 \in Inject :
              LET idx == Cardinality({r \in Range(db.turns) : r.session_id = state.sessionId})
                  c1 == Then(Begin(db, file),
                             [ op |-> "insert_turn", sid |-> state.sessionId,
                               idx |-> idx, t |-> now ], i1)
              IN /\ db' = c1.db
                 /\ state' = [state EXCEPT
                        !.currentTurnStartedAt = now,
                        !.currentTurnId = IF c1.threw THEN @ ELSE getLastInsertId(c1.db)]
                 /\ last' = Report("turn_start", getLastInsertId(c1.db), "", c1)
                 /\ hist' = [hist EXCEPT !.hostTurn =
                        IF c1.failed = {} THEN getLastInsertId(c1.db) ELSE NULL]
    /\ UNCHANGED <<file, sqljs, now, pending>>
    /\ RecFrame

\* recorder.ts 343-406
TurnEnd(usage, content) ==
    /\ db # NoDb => /\ Len(db.messages) < MaxMessages
                    /\ \A r \in Range(db.sessions) : r.total_input_tokens < MaxTotal
    /\ IF Inactive \/ NoCurrentTurn(state)
       THEN /\ last' = [Skipped("turn_end") EXCEPT !.host = hist.hostTurn]
            /\ UNCHANGED <<db, file>>
       ELSE \E i1, i2, i3, i4 \in Inject :
              LET endedAt == now
                  durationMs == endedAt - state.currentTurnStartedAt
                  u == UsageOf(usage)
                  assistantText == extractTextContent(content)
                  c1 == Then(Begin(db, file),
                             [ op |-> "update_turn", id |-> state.currentTurnId,
                               t |-> endedAt, dur |-> durationMs, u |-> u ], i1)
                  c2 == Then(c1, [op |-> "add_totals", sid |-> state.sessionId, u |-> u], i2)
                  c3 == IF TLen(assistantText) > 0
                        THEN Then(c2, [ op |-> "insert_message", sid |-> state.sessionId,
                                        role |-> "assistant", content |-> assistantText,
                                        turn |-> state.currentTurnId, t |-> endedAt,
                                        raw |-> JoinLines(TextItems(content)) ], i3)
                        ELSE c2
                  c4 == ThenPersist(c3, i4)
              IN db' = c4.db /\ file' = c4.file
                 /\ last' = [Report("turn_end", state.currentTurnId, "", c4) EXCEPT
                                !.host = hist.hostTurn, !.msg = TLen(assistantText) > 0]
    /\ hist' = [hist EXCEPT !.hostTurn = NULL]
    /\ UNCHANGED <<state, sqljs, now, pending>>
    /\ RecFrame

\* recorder.ts 409-431
ToolCall(id) ==
    /\ IF Inactive
       THEN last' = Skipped("tool_call") /\ UNCHANGED <<db, state>>
       ELSE \E i1 \in Inject :
              LET startedAt == now
                  c1 == Then(Begin(db, file),
                             [ op |-> "insert_tool_call", id |-> id,
                               sid |-> state.sessionId, turn |-> state.currentTurnId,
                               t |-> startedAt ], i1)
              IN /\ db' = c1.db
                 /\ state' = [state EXCEPT !.toolCallStarts =
                        [c \in DOMAIN @ \cup {id} |-> IF c = id THEN startedAt ELSE @[c]]]
                 /\ last' = Report("tool_call", NULL, id, c1)
    /\ UNCHANGED <<file, sqljs, now, pending, hist>>
    /\ RecFrame

\* the lookup falling back to 0 when no start time is remembered
StartedAtOrZero(starts, id, endedAt) == IF id \in DOMAIN starts THEN starts[id] ELSE 0

\* recorder.ts 439: state.toolCallStarts.get(event.toolCallId) ?? endedAt
StartedAtOr(starts, id, endedAt) == IF id \in DOMAIN starts THEN starts[id] ELSE endedAt

\* recorder.ts 434-457
ToolResult(id, isError, content) ==
    /\ IF Inactive
       THEN /\ last' = [Skipped("tool_result") EXCEPT !.call = id]
            /\ UNCHANGED <<db, file, state>>
       ELSE \E i1, i2 \in Inject :
              LET endedAt == now
                  startedAt == StartedAtOr(state.toolCallStarts, id, endedAt)
                  durationMs == endedAt - startedAt
                  resultText == extractTextContent(content)
                  c1 == Then(Begin(db, file),
                             [ op |-> "update_tool_call", id |-> id, t |-> endedAt,
                               dur |-> durationMs, err |-> IF isError THEN 1 ELSE 0,
                               text |-> resultText,
                               raw |-> JoinLines(TextItems(content)) ], i1)
                  c2 == ThenPersist(c1, i2)
              IN /\ db' = c2.db /\ file' = c2.file
                 /\ state' = [state EXCEPT !.toolCallStarts =
                        [c \in DOMAIN @ \ {id} |-> @[c]]]
                 /\ last' = [Report("tool_result", NULL, id, c2) EXCEPT !.start =
                        IF id \in DOMAIN state.toolCallStarts
                        THEN state.toolCallStarts[id] ELSE NULL]
    /\ UNCHANGED <<sqljs, now, pending, hist>>
    /\ RecFrame

\* recorder.ts 460-481
ModelSelect(previousModel, model) ==
    /\ db # NoDb => Len(db.model_changes) < MaxModelChanges
    /\ IF Inactive
       THEN last' = Skipped("model_select") /\ UNCHANGED <<db, file>>
       ELSE \E i1, i2 \in Inject :
              LET c1 == Then(Begin(db, file),
                             [ op |-> "insert_model_change", sid |-> state.sessionId,
                               t |-> now, from |-> previousModel, to |-> model ], i1)
                  c2 == ThenPersist(c1, i2)
              IN db' = c2.db /\ file' = c2.file
                 /\ last' = Report("model_select", NULL, "", c2)
    /\ UNCHANGED <<state, sqljs, now, pending, hist>>
    /\ RecFrame

\* time passes between two events
Tick ==
    /\ now < MaxTime
    /\ now' = now + 1
    /\ UNCHANGED <<db, file, state, sqljs, pending, hist>>
    /\ IdleFrame

\* ------------------------------------------------------------ kagi_search
\* kagi-search.ts.  A string that the code splits is kept in its split form: a
\* Set-Cookie header is the sequence of its ";"-separated segments, a segment
\* the sequence of its "="-separated fields.
Invocations == 1..MaxInvocations

CookieSession == <<"kagi_session", "tok">>
CookieSearch == <<"_kagi_search", "v">>
Attribute == <<" Path", "/">>
\* response.headers.getSetCookie() of the authenticate response
SetCookieLists ==
    { <<>>,
      << <<CookieSession, Attribute>> >>,
      << <<CookieSearch>>, <<CookieSession, Attribute>> >> }

\* the separator of this.cookies.join("; "), as a piece of the header
Separator == <<"; ">>

\* kagi-search.ts 65 with the cookies taken last first
CaptureCookiesReversed(setCookies) ==
    [j \in 1..Len(setCookies) |-> Head(setCookies[Len(setCookies) + 1 - j])]

\* kagi-search.ts 65: setCookies.map((c) => c.split(";")[0])
CaptureCookies(setCookies) == [j \in 1..Len(setCookies) |-> Head(setCookies[j])]

RECURSIVE SessionCookieOf(_, _)
\* kagi-search.ts 68-73: the value of the first cookie that starts with
\* "kagi_session=", up to its next "="; the old value if there is none
SessionCookieOf(cookies, old) ==
    IF cookies = <<>> THEN old
    ELSE IF Len(Head(cookies)) >= 2 /\ Head(cookies)[1] = "kagi_session"
         THEN Head(cookies)[2]
         ELSE SessionCookieOf(Tail(cookies), old)

RECURSIVE CookieHeader(_)
\* kagi-search.ts 90 and 142: this.cookies.join("; ")
CookieHeader(cookies) ==
    IF cookies = <<>> THEN <<>>
    ELSE IF Len(cookies) = 1 THEN <<Head(cookies)>>
    ELSE <<Head(cookies), Separator>> \o CookieHeader(Tail(cookies))

\* kagi-search.ts 51-53: new KagiClient(); auth is the state of its authenticate
\* call ("new": not settled), setCookies the response that call read
NewClient == [cookies |-> <<>>, sessionCookie |-> "", auth |-> "new", setCookies |-> <<>>]

NoRequest == [k |-> NULL]
NoOutcome == [i |-> 0]

\* kagi-search.ts 188: let client = null, and no invocation yet
KagiInit ==
    [ client |-> NULL, clients |-> <<>>,
      inv |-> [i \in Invocations |-> [pc |-> "idle", mine |-> NULL, qa |-> FALSE,
                                      issued |-> FALSE]],
      req |-> NoRequest, last |-> NoOutcome, fresh |-> FALSE ]

KagiFrame == UNCHANGED <<db, file, state, sqljs, now, pending, last, hist, faults, tool, parse>>

\* kagi-search.ts 252 with the client kept
OnErrorKeepClient(c) == c

\* kagi-search.ts 252: client = null
OnError(c) == NULL

\* kagi-search.ts 251-258: the catch block of execute ends invocation i
Failed(g, i, step) ==
    [g EXCEPT !.client = OnError(g.client),
              !.inv[i].pc = "done",
              !.last = [ i |-> i, failed |-> step, qa |-> "not asked", isError |-> TRUE,
                         before |-> g.client ],
              !.fresh = TRUE]

\* kagi-search.ts 221-224: kagi.search and kagi.getQuickAnswer each run up to
\* their fetch: both requests leave through client k
Issue(g, i, k) ==
    [g EXCEPT !.inv[i].pc = "requests", !.inv[i].issued = TRUE,
              !.req = [ k |-> k, auth |-> g.clients[k].auth,
                        cookie |-> CookieHeader(g.clients[k].cookies),
                        authorization |-> g.clients[k].sessionCookie,
                        quick |-> g.inv[i].qa ],
              !.fresh = FALSE]

\* kagi-search.ts 215-217, 190-195: execute starts and runs ensureClient up to
\* its first await.  tokenOk: loadConfig and getSessionToken return.
Execute(i, quick_answer, tokenOk) ==
    /\ kagi.inv[i].pc = "idle"
    /\ LET g0 == [kagi EXCEPT !.inv[i].qa = quick_answer] IN
       IF kagi.client = NULL
       THEN LET k == Len(kagi.clients) + 1
                g1 == [g0 EXCEPT !.clients = Append(@, NewClient), !.client = k,
                                 !.inv[i].mine = k]
            IN IF tokenOk
               THEN kagi' = [g1 EXCEPT !.inv[i].pc = "authenticate", !.fresh = FALSE]
               ELSE kagi' = Failed(g1, i, "token")
       ELSE /\ tokenOk
            /\ kagi' = Issue(g0, i, kagi.client)
    /\ KagiFrame

\* kagi-search.ts 58: the authenticate request of invocation i is rejected
AuthenticateRejected(i) ==
    /\ kagi.inv[i].pc = "authenticate"
    /\ kagi' = Failed([kagi EXCEPT !.clients[kagi.inv[i].mine].auth = "rejected"],
                      i, "authenticate")
    /\ KagiFrame

\* kagi-search.ts 64-81 and 196-197: the authenticate response arrives; signin:
\* it redirects to /signin or /welcome.  ensureClient then returns the variable
\* client as it is now.
AuthenticateResponse(i, setCookies, signin) ==
    /\ kagi.inv[i].pc = "authenticate"
    /\ LET k == kagi.inv[i].mine
           cookies == CaptureCookies(setCookies)
           g1 == [kagi EXCEPT
                    !.clients[k].cookies = cookies,
                    !.clients[k].setCookies = setCookies,
                    !.clients[k].sessionCookie = SessionCookieOf(cookies, @),
                    !.clients[k].auth = IF signin THEN "failed" ELSE "ok"]
       IN kagi' = IF signin THEN Failed(g1, i, "authenticate")
                  ELSE IF g1.client = NULL THEN Failed(g1, i, "client")
                  ELSE Issue(g1, i, g1.client)
    /\ KagiFrame

\* kagi-search.ts 87-95: the search request or the reading of its body fails;
\* Promise.all rejects
SearchFailed(i) ==
    /\ kagi.inv[i].pc = "requests"
    /\ kagi' = Failed(kagi, i, "search")
    /\ KagiFrame

\* kagi-search.ts 221-250, 137-183: the search response arrives and the
\* quick-answer call settles: answer, nothing, or failed (its catch returns null)
Completed(i, qa) ==
    /\ kagi.inv[i].pc = "requests"
    /\ qa \in (IF kagi.inv[i].qa THEN {"answer", "nothing", "failed"} ELSE {"not asked"})
    /\ kagi' = [kagi EXCEPT
                  !.inv[i].pc = "done",
                  !.last = [ i |-> i, failed |-> "none", qa |-> qa, isError |-> FALSE,
                             before |-> kagi.client ],
                  !.fresh = TRUE]
    /\ KagiFrame

\* ------------------------------------------------------------------ tools
\* The execute functions of fetch_url (jina.ts 12-32), github_search_code
\* (github-search.ts 143-211), ast_grep (ast-grep.ts 172-219), the pexpect tools
\* (jina.ts 161-364) and kagi_search (kagi-search.ts 215-259).  One invocation
\* runs at a time; it stops at every await and every subprocess, whose outcome
\* the environment chooses.  A text that the code builds from parts is kept as
\* the sequence of its parts.
Operations ==
    { "fetch_url", "kagi_search", "github_search_code", "ast_grep",
      "pexpect_start", "pexpect_exec", "pexpect_stop", "pexpect_list" }

PexpectOperations == {"pexpect_start", "pexpect_exec", "pexpect_stop", "pexpect_list"}

\* session ids pexpect-cli hands out
PexpectIds == {"a1", "b2"}

NoResult == [kind |-> "none", isError |-> FALSE]
\* { content: [...] }
Content == [kind |-> "content", isError |-> FALSE]
\* { content: [...], isError: true }
ErrorResult == [kind |-> "content", isError |-> TRUE]
\* the promise of execute rejects: the error leaves the tool
Thrown == [kind |-> "exception", isError |-> FALSE]

\* jina.ts 75-77: the message of the error ensurePueueRunning throws
Remediation == <<"pueue daemon is not running. Start it with: pueued -d">>

\* jina.ts 232 and 294
NotFound(id) == <<"Session ", id, " not found. Use pexpect_list to see active sessions.">>
NotFoundOrStopped(id) == <<"Session ", id, " not found or already stopped.">>

\* jina.ts 114
TimedOut == <<"Execution timed out after ", "timeout", "ms">>

\* what is on the child's stderr, when there is something
SomeStderr == <<"stderr">>

\* github-search.ts 41 and ast-grep.ts 54: stderr || `<program> exited with code ${code}`
ExitMessage(program, code, stderr) ==
    IF stderr # <<>> THEN stderr
    ELSE <<program, " exited with code ", IF code = NULL THEN "null" ELSE ToString(code)>>

\* github-search.ts 49 and ast-grep.ts 67
ParseFailure(program) == <<"Failed to parse ", program, " output: ", "stdout">>

\* the catch blocks of the execute functions: the text in front of the message
Prefix(op) ==
    CASE op = "pexpect_start" -> "Failed to start session: "
      [] op = "pexpect_exec" -> "Execution failed: "
      [] op = "pexpect_stop" -> "Failed to stop session: "
      [] op = "pexpect_list" -> "Failed to list sessions: "
      [] op = "github_search_code" -> "GitHub search failed: "
      [] op = "ast_grep" -> "ast-grep search failed: "
      [] OTHER -> "Error: "

\* the process spawned for a stage, as its argument vector begins
Command(pc, session_id) ==
    CASE pc = "pueue" -> <<"pueue", "status">>
      [] pc = "start" -> <<"pexpect-cli", "--start">>
      [] pc = "list" -> <<"pexpect-cli", "--list">>
      [] pc = "stop" -> <<"pexpect-cli", "--stop", session_id>>
      [] pc = "exec" -> <<"pexpect-cli", session_id>>
      [] pc = "gh" -> <<"gh", "search", "code">>
      [] pc = "ast-grep" -> <<"ast-grep", "run">>
      [] OTHER -> <<>>

\* params.limit when the client passes none
NoLimit == [given |-> FALSE, value |-> 0]

\* the run function resolved
NoError == <<>>

\* the search child has not closed
NoExit ==
    [ closed |-> FALSE, code |-> 0, stderr |-> <<>>,
      stdout |-> [text |-> "empty", matches |-> <<>>] ]

\* no invocation yet.  sessions: the sessions pexpect-cli has; child: the
\* process spawned last by execInSession; cmds: the processes this invocation
\* started; listDone, listed: the descriptors parseSessionList returned to it; error: the
\* message runGhSearch or runAstGrep rejected with; parsed: JSON.parse(stdout)
\* was called; matches: what the run function resolved with; presented: the
\* matches handed to formatResults; exit: how the search child closed
ToolInit ==
    [ op |-> "none", pc |-> "idle", session_id |-> "", timeout |-> FALSE,
      limit |-> NoLimit, failed |-> FALSE, result |-> NoResult, message |-> <<>>,
      calls |-> <<>>, cmds |-> <<>>, pueue |-> "unchecked", listDone |-> FALSE, listed |-> <<>>,
      stdin |-> FALSE, child |-> "none", error |-> NoError, parsed |-> FALSE,
      matches |-> <<>>, presented |-> <<>>, exit |-> NoExit, sessions |-> {}, runs |-> 0,
      timer |-> "none", settled |-> "none", late |-> 0 ]

ToolFrame == UNCHANGED <<db, file, state, sqljs, now, pending, last, hist, faults, kagi, parse>>

\* where execute first waits
FirstStage(op) ==
    CASE op = "fetch_url" -> "fetch"
      [] op = "kagi_search" -> "kagi"
      [] op = "github_search_code" -> "gh"
      [] op = "ast_grep" -> "ast-grep"
      [] OTHER -> "pueue"

\* the invocation returns result r; failed: an underlying call had failed
Return(t, r, failed) == [t EXCEPT !.pc = "done", !.result = r, !.failed = failed]

\* the text of the result
Say(t, text) == [t EXCEPT !.message = text]

\* a catch block of execute returns the error it caught
Caught(t, msg) == Say(Return(t, ErrorResult, TRUE), <<Prefix(t.op)>> \o msg)

\* the invocation goes on to its next call
Goto(t, pc) ==
    [t EXCEPT !.pc = pc, !.calls = Append(@, pc),
              !.cmds = IF Command(pc, t.session_id) = <<>> THEN @
                       ELSE Append(@, Command(pc, t.session_id))]

\* the values a client passes as ast_grep's limit
AstGrepLimits == {NoLimit} \cup {[given |-> TRUE, value |-> n] : n \in -1..MaxLimit}

\* the host calls execute
ToolInvoke(op, session_id, timeout, limit) ==
    /\ tool.pc \in {"idle", "done"}
    /\ tool.runs < MaxToolRuns
    /\ op \notin {"pexpect_exec", "pexpect_stop"} => session_id = "a1"
    /\ op # "pexpect_exec" => ~timeout
    /\ op # "ast_grep" => limit = NoLimit
    /\ tool' = [Goto([ToolInit EXCEPT !.sessions = tool.sessions, !.child = tool.child,
                                      !.session_id = session_id],
                     FirstStage(op))
                  EXCEPT !.op = op, !.timeout = timeout, !.limit = limit,
                         !.runs = tool.runs + 1]
    /\ ToolFrame

\* jina.ts 15-28: fetch settles: a 2xx response, another response, or a
\* rejection (network error, or the signal aborted the request); execute has no
\* try/catch
FetchSettles(outcome) ==
    /\ tool.pc = "fetch"
    /\ tool' = CASE outcome = "ok" -> Goto(tool, "body")
                 [] outcome = "status" -> Return(tool, ErrorResult, TRUE)
                 [] outcome = "rejected" -> Return(tool, Thrown, TRUE)
    /\ ToolFrame

\* jina.ts 30-31: response.text() settles
BodySettles(ok) ==
    /\ tool.pc = "body"
    /\ tool' = IF ok THEN Return(tool, Content, FALSE) ELSE Return(tool, Thrown, TRUE)
    /\ ToolFrame

\* kagi-search.ts 216-258: everything in execute is inside its try/catch
KagiSettles(ok) ==
    /\ tool.pc = "kagi"
    /\ tool' = IF ok THEN Return(tool, Content, FALSE) ELSE Return(tool, ErrorResult, TRUE)
    /\ ToolFrame

\* what a child wrote to stdout: nothing, a JSON array of matches, or something
\* that is not JSON
Stdouts ==
    {[text |-> "empty", matches |-> <<>>], [text |-> "garbage", matches |-> <<>>]}
    \cup {[text |-> "json", matches |-> [i \in 1..n |-> i]] : n \in 0..MaxMatches}

\* JSON.parse(stdout)
JsonParse(stdout) ==
    IF stdout.text = "json" THEN [ok |-> TRUE, value |-> stdout.matches]
    ELSE [ok |-> FALSE, value |-> <<>>]

\* the close handlers accepting every exit code
AcceptedAny(program) == {0, 1, 2, NULL}

\* github-search.ts 40 `code !== 0`; ast-grep.ts 53 `code !== 0 && code !== 1`
Accepted(program) == IF program = "gh" THEN {0} ELSE {0, 1}

\* the promise of runGhSearch / runAstGrep settles
Resolve(t, matches, parsed) == [t EXCEPT !.error = NoError, !.matches = matches, !.parsed = parsed]
Reject(t, msg, parsed) == [t EXCEPT !.error = msg, !.matches = <<>>, !.parsed = parsed]

\* the child closes: the close event carries the exit code
Exited(t, code, stderr, stdout) ==
    [t EXCEPT !.exit = [closed |-> TRUE, code |-> code, stderr |-> stderr, stdout |-> stdout]]

\* github-search.ts 39-51: the close handler of runGhSearch
GhClose(t, code, stderr, stdout) ==
    IF code \notin Accepted("gh") THEN Reject(t, ExitMessage("gh", code, stderr), FALSE)
    ELSE LET j == JsonParse(stdout) IN
         IF j.ok THEN Resolve(t, j.value, TRUE) ELSE Reject(t, ParseFailure("gh"), TRUE)

\* ast-grep.ts 51-69: the close handler of runAstGrep; stdout.trim() empty
\* resolves with no matches
AstGrepClose(t, code, stderr, stdout) ==
    IF code \notin Accepted("ast-grep")
    THEN Reject(t, ExitMessage("ast-grep", code, stderr), FALSE)
    ELSE IF stdout.text = "empty" THEN Resolve(t, <<>>, FALSE)
    ELSE LET j == JsonParse(stdout) IN
         IF j.ok THEN Resolve(t, j.value, TRUE)
         ELSE Reject(t, ParseFailure("ast-grep"), TRUE)

\* Array.prototype.slice(0, end): a negative end counts from the end
Slice0(s, end) ==
    LET e == IF end < 0 THEN (IF Len(s) + end < 0 THEN 0 ELSE Len(s) + end)
             ELSE IF end > Len(s) THEN Len(s) ELSE end
    IN SubSeq(s, 1, e)

\* ast-grep.ts 201-205: params.limit ?? 50, slice when there are more
ApplyLimit(matches, limit) ==
    LET lim == IF limit.given THEN limit.value ELSE DEFAULT_LIMIT
    IN IF Len(matches) > lim THEN Slice0(matches, lim) ELSE matches

\* github-search.ts 173-210: execute returns what runGhSearch settled with
GhExecute(t) ==
    IF t.error = NoError
    THEN [Return(t, Content, FALSE) EXCEPT !.presented = t.matches]
    ELSE Caught(t, t.error)

\* ast-grep.ts 199-217
AstGrepExecute(t) ==
    IF t.error = NoError
    THEN [Return(t, Content, FALSE) EXCEPT !.presented = ApplyLimit(t.matches, t.limit)]
    ELSE Caught(t, t.error)

\* github-search.ts 39-55 and 173-210: gh closes with an exit code (NULL: killed
\* by a signal) or cannot be spawned (the error names ENOENT, 184-194)
GhSettles(spawned, code, stderr, stdout) ==
    /\ tool.pc = "gh"
    /\ tool' = IF ~spawned
               THEN Say(Return(Reject(tool, <<"spawn gh ENOENT">>, FALSE), ErrorResult, TRUE),
                        <<"GitHub CLI (gh) is not installed or not in PATH. Install it from https://cli.github.com/">>)
               ELSE GhExecute(GhClose(Exited(tool, code, stderr, stdout), code, stderr, stdout))
    /\ ToolFrame

\* ast-grep.ts 51-77 and 199-217: exit codes 0 and 1 are accepted
AstGrepSettles(spawned, code, stderr, stdout) ==
    /\ tool.pc = "ast-grep"
    /\ tool' = IF ~spawned
               THEN AstGrepExecute(Reject(tool,
                        <<"ast-grep not found. Install from https://ast-grep.github.io">>, FALSE))
               ELSE AstGrepExecute(AstGrepClose(Exited(tool, code, stderr, stdout), code, stderr, stdout))
    /\ ToolFrame

\* the execute functions going on whatever `pueue status` did
PueueStatusUnchecked(ok) ==
    /\ tool.pc = "pueue"
    /\ tool' = [(IF tool.op = "pexpect_start" THEN Goto(tool, "start") ELSE Goto(tool, "list"))
                  EXCEPT !.pueue = IF ok THEN "ok" ELSE "failed"]
    /\ ToolFrame

\* jina.ts 71-79: execSync("pueue status") returns or throws
PueueStatus(ok) ==
    /\ tool.pc = "pueue"
    /\ tool' = IF ~ok THEN [Caught(tool, Remediation) EXCEPT !.pueue = "failed"]
               ELSE [(IF tool.op = "pexpect_start" THEN Goto(tool, "start")
                      ELSE Goto(tool, "list")) EXCEPT !.pueue = "ok"]
    /\ ToolFrame

\* jina.ts 170-178: pexpect-cli --start prints the id of the new session
PexpectStart(ok, id) ==
    /\ tool.pc = "start"
    /\ id \in PexpectIds \ tool.sessions
    /\ tool' = IF ok
               THEN [Say(Return(tool, Content, FALSE), <<"Started session ", id, "">>)
                       EXCEPT !.sessions = @ \cup {id}]
               ELSE Caught(tool, SomeStderr)
    /\ ToolFrame

\* the lines `pexpect-cli --list` prints: one per session, "id: status", and
\* lines that are something else
\* the orders in which the sessions of S can be listed
Orders(S) ==
    {q \in UNION {[1..n -> S] : n \in {Cardinality(S)}} :
        \A i, j \in DOMAIN q : i # j => q[i] # q[j]}

ListOutputs(S) ==
    UNION { LET lines == [i \in DOMAIN q |-> [kind |-> "session", id |-> q[i], status |-> "Running"]]
            IN {lines, <<[kind |-> "other", id |-> "", status |-> ""]>> \o lines} : q \in Orders(S) }

RECURSIVE parseSessionList(_)
\* jina.ts 49-68: a line that matches the pattern gives a descriptor, any
\* other line is skipped
parseSessionList(output) ==
    IF output = <<>> THEN <<>>
    ELSE (IF Head(output).kind = "session"
          THEN <<[id |-> Head(output).id, status |-> Head(output).status]>>
          ELSE <<>>)
         \o parseSessionList(Tail(output))

NoDescriptor == [id |-> "", status |-> ""]

RECURSIVE FindSession(_, _)
\* sessions.find((s) => s.id === params.session_id); NoDescriptor: undefined
FindSession(sessions, id) ==
    IF sessions = <<>> THEN NoDescriptor
    ELSE IF Head(sessions).id = id THEN Head(sessions)
    ELSE FindSession(Tail(sessions), id)

\* pexpect_exec spawning the child without looking at what find returned
ExecAfterListUnchecked(t, session) ==
    [Goto(t, "exec") EXCEPT !.child = "running", !.stdin = TRUE,
                            !.timer = IF t.timeout THEN "armed" ELSE "none"]

\* jina.ts 227-253: not found is an error result; else execInSession spawns
\* the child and writes the code to its stdin (103, 142-143)
ExecAfterList(t, session) ==
    IF session = NoDescriptor
    THEN Say(Return(t, ErrorResult, FALSE), NotFound(t.session_id))
    ELSE [Goto(t, "exec") EXCEPT !.child = "running", !.stdin = TRUE,
                                 !.timer = IF t.timeout THEN "armed" ELSE "none"]

\* pexpect_stop running the stop subcommand without looking at what find returned
StopAfterListUnchecked(t, session) == Goto(t, "stop")

\* jina.ts 289-300: not found is a plain result; else pexpect-cli --stop <id>
StopAfterList(t, session) ==
    IF session = NoDescriptor
    THEN Say(Return(t, Content, FALSE), NotFoundOrStopped(t.session_id))
    ELSE Goto(t, "stop")

\* jina.ts 223-237, 285-298, 329-341: pexpect-cli --list and what each tool
\* does with the sessions it lists
PexpectList(ok) ==
    /\ tool.pc = "list"
    /\ IF ~ok THEN tool' = Caught(tool, SomeStderr)
       ELSE \E output \in ListOutputs(tool.sessions) :
              LET sessions == parseSessionList(output)
                  t == [tool EXCEPT !.listDone = TRUE, !.listed = sessions]
                  session == FindSession(sessions, tool.session_id)
              IN tool' = CASE tool.op = "pexpect_list" ->
                                Say(Return(t, Content, FALSE),
                                    IF sessions = <<>>
                                    THEN <<"No active pexpect sessions. Use pexpect_start to create one.">>
                                    ELSE <<"Active pexpect sessions:">>)
                           [] tool.op = "pexpect_exec" -> ExecAfterList(t, session)
                           [] tool.op = "pexpect_stop" -> StopAfterList(t, session)
    /\ ToolFrame

\* jina.ts 300-308: pexpect-cli --stop <id>
PexpectStop(ok) ==
    /\ tool.pc = "stop"
    /\ tool' = IF ok
               THEN [Say(Return(tool, Content, FALSE),
                         <<"Stopped session ", tool.session_id, "">>)
                       EXCEPT !.sessions = @ \ {tool.session_id}]
               ELSE Caught(tool, SomeStderr)
    /\ ToolFrame

\* the handlers leaving the timer as it is
clearTimeoutNever(t) == t

\* jina.ts 127 and 137: if (timeoutId) clearTimeout(timeoutId)
clearTimeout(t) == [t EXCEPT !.timer = IF @ = "armed" THEN "cleared" ELSE @]

\* jina.ts 102: resolve and reject of the promise execInSession returns.  The
\* first call settles it and execute goes on with outcome; a call on the
\* settled promise has no effect (late counts those calls)
Settle(t, by, outcome) ==
    IF t.settled = "none" THEN [outcome EXCEPT !.settled = by]
    ELSE [t EXCEPT !.late = @ + 1]

\* jina.ts 126-134 and 249-259: the pexpect-cli child closes before anything
\* else has happened; the close handler rejects only when the exit code is not
\* 0 and stderr is not empty
ExecCloses(code, stderr) ==
    /\ tool.pc = "exec"
    /\ LET t == [clearTimeout(tool) EXCEPT !.child = "exited"] IN
       tool' = Settle(t, "close",
                      IF code # 0 /\ stderr # <<>> THEN Caught(t, stderr)
                      ELSE Say(Return(t, Content, code # 0), <<"stdout">>))
    /\ ToolFrame

\* jina.ts 136-139: the child cannot be spawned; its close event is still to
\* come
ExecSpawnError ==
    /\ tool.pc = "exec"
    /\ LET t == [clearTimeout(tool) EXCEPT !.child = "failed"] IN
       tool' = Settle(t, "error", Caught(t, <<"spawn pexpect-cli ENOENT">>))
    /\ ToolFrame

\* jina.ts 111-116: the timer fires: child.kill("SIGTERM") sends the signal
\* and the promise is rejected at once; nothing waits for the child
ExecTimeout ==
    /\ tool.timer = "armed"
    /\ LET t == [tool EXCEPT !.timer = "fired", !.calls = Append(@, "kill"),
                             !.child = IF @ = "running" THEN "signalled" ELSE @] IN
       tool' = Settle(t, "timeout", Caught(t, TimedOut))
    /\ ToolFrame

\* jina.ts 126-134: the close event of a child that was sent SIGTERM or could
\* not be spawned: the handler runs on the settled promise.  A child of an
\* earlier invocation has its own timer and promise
ChildExits ==
    /\ tool.child \in {"signalled", "failed"}
    /\ LET gone == IF tool.child = "failed" THEN "none" ELSE "exited" IN
       tool' = IF tool.stdin
               THEN LET t == [clearTimeout(tool) EXCEPT !.child = gone] IN
                    Settle(t, "close", t)
               ELSE [tool EXCEPT !.child = gone]
    /\ ToolFrame

\* ------------------------------------------------------ kagi result parsing
\* KagiClient.search, kagi-search.ts 95-129.  The response body is kept as the
\* sequence of the blocks resultPattern matches, in document order; a block
\* holds what titlePattern, urlPattern and snippetPattern find in it.  Inner
\* HTML is a sequence of tokens: a tag, white space, or text.
Tag == [k |-> "tag", v |-> "<b>"]
Space == [k |-> "space", v |-> " "]
Text(v) == [k |-> "text", v |-> v]

RECURSIVE StripTags(_)
\* .replace(/<[^>]*>/g, "")
StripTags(s) ==
    IF s = <<>> THEN <<>>
    ELSE IF Head(s).k = "tag" THEN StripTags(Tail(s))
    ELSE <<Head(s)>> \o StripTags(Tail(s))

RECURSIVE TrimStart(_)
TrimStart(s) == IF s # <<>> /\ Head(s).k = "space" THEN TrimStart(Tail(s)) ELSE s

RECURSIVE TrimEnd(_)
TrimEnd(s) ==
    IF s # <<>> /\ s[Len(s)].k = "space" THEN TrimEnd(SubSeq(s, 1, Len(s) - 1)) ELSE s

\* String.prototype.trim()
Trim(s) == TrimEnd(TrimStart(s))

\* a sub-block the pattern does not find
Missing == [found |-> FALSE, inner |-> <<>>]
Found(inner) == [found |-> TRUE, inner |-> inner]

Block(title, url, snippet) == [title |-> title, url |-> url, snippet |-> snippet]

\* result blocks: complete, without snippet, without title, without url, and
\* one whose snippet is only a tag and white space
Blocks ==
    { Block(Found(<<Space, Tag, Text("t"), Tag>>), Found(<<Text("u")>>),
            Found(<<Text("s"), Space, Tag, Text("s"), Space>>)),
      Block(Found(<<Text("t2")>>), Found(<<Text("u2")>>), Missing),
      Block(Missing, Found(<<Text("u3")>>), Found(<<Text("s3")>>)),
      Block(Found(<<Text("t4")>>), Missing, Found(<<Text("s4")>>)),
      Block(Found(<<Text("t5")>>), Found(<<Text("u5")>>), Found(<<Tag, Space>>)) }

RECURSIVE SeqsUpTo(_, _)
\* the sequences over S of length at most n
SeqsUpTo(S, n) ==
    IF n = 0 THEN {<<>>}
    ELSE LET shorter == SeqsUpTo(S, n - 1) IN
         shorter \cup {Append(q, x) : q \in shorter, x \in S}

Htmls == SeqsUpTo(Blocks, MaxBlocks)
Limits == 0..MaxLimit

\* kagi-search.ts 122-124
SnippetOf(block) ==
    IF block.snippet.found THEN Trim(StripTags(block.snippet.inner)) ELSE <<>>

\* kagi-search.ts 110 with the bound included
BelowLimitInclusive(results, limit) == Len(results) <= limit

\* kagi-search.ts 110: results.length < limit
BelowLimit(results, limit) == Len(results) < limit

\* kagi-search.ts 96 and 108: before the loop; src remembers the block a result
\* was made from
ParseStart(html, limit) ==
    [html |-> html, limit |-> limit, pos |-> 1, results |-> <<>>, pc |-> "loop"]

ParseFrame == UNCHANGED <<db, file, state, sqljs, now, pending, last, hist, faults, kagi, tool>>

\* kagi-search.ts 109-127: one evaluation of the loop condition and, if it
\* holds, one run of the body
SearchLoop ==
    /\ parse.pc = "loop"
    /\ IF parse.pos > Len(parse.html)
       THEN parse' = [parse EXCEPT !.pc = "done"]
       ELSE IF ~BelowLimit(parse.results, parse.limit)
       THEN parse' = [parse EXCEPT !.pc = "done", !.pos = @ + 1]
       ELSE LET block == parse.html[parse.pos] IN
            parse' = [parse EXCEPT
                !.pos = @ + 1,
                !.results =
                    IF block.title.found /\ block.url.found
                    THEN Append(@, [ title |-> Trim(StripTags(block.title.inner)),
                                     url |-> block.url.inner,
                                     snippet |-> SnippetOf(block),
                                     src |-> parse.pos ])
                    ELSE @]
    /\ ParseFrame

\* kagi-search.ts 129: return results
SearchReturn ==
    /\ parse.pc = "done"
    /\ parse' = [parse EXCEPT !.pc = "returned"]
    /\ ParseFrame

\* ------------------------------------------------- recorder: specification

\* recorder.ts 127-140: the module's state when the extension is loaded
RecInit ==
    /\ db = NoDb
    /\ file = NoFile
    /\ state = [ sessionId |-> NoSession, currentTurnId |-> NULL,
                 currentTurnStartedAt |-> 0, toolCallStarts |-> NoStarts ]
    /\ sqljs = [SQL |-> FALSE, available |-> TRUE]
    /\ now = 1
    /\ pending = <<>>
    /\ last = Skipped("none")
    /\ hist = [ starts |-> 0, opens |-> 0, replaced |-> FALSE, hostTurn |-> NULL,
                unrecorded |-> {} ]

Init == RecInit /\ faults = 0 /\ kagi = KagiInit /\ tool = ToolInit /\ parse = ParseStart(<<>>, 0)

InitFault == RecInit /\ faults = MaxFaults /\ kagi = KagiInit /\ tool = ToolInit /\ parse = ParseStart(<<>>, 0)

\* session, turn and tool-call events; the clock stands still
Next ==
    \/ \E sid \in SessionIds, m \in Models : SessionStartAwait(sid, m)
    \/ \E i \in 1..MaxPending : SessionStartResume(i)
    \/ SessionShutdown
    \/ TurnStart
    \/ \E u \in Usages : TurnEnd(u, <<>>)
    \/ \E id \in CallIds : ToolCall(id)
    \/ \E id \in CallIds : ToolResult(id, FALSE, <<>>)

\* the recorder with every statement and file write succeeding
Spec == Init /\ [][Next]_vars

\* ------------------------------------------------- recorder: properties
\* the stores that exist: the open database and the file
Stores == {st \in {db, file} : st # NoDb /\ st # NoFile}

\* the rows one sees with sqlite3 recorder.db, or in the open database
TurnRows == IF db # NoDb THEN db.turns ELSE IF file # NoFile THEN file.turns ELSE <<>>
CallRows == IF db # NoDb THEN db.tool_calls
            ELSE IF file # NoFile THEN file.tool_calls ELSE <<>>

RECURSIVE TurnSum(_, _, _)
\* the sum of column col over the turn rows of session sid
TurnSum(rows, sid, col) ==
    IF rows = <<>> THEN 0
    ELSE (IF Head(rows).session_id = sid THEN Head(rows)[col] ELSE 0)
         + TurnSum(Tail(rows), sid, col)

Populated(r) == r.started_at # NULL /\ r.ended_at # NULL

\* C1: after one session start followed by turn and tool-call events, the
\* session row's running totals equal the sums of the usage columns over the
\* turn rows of that session.
C1_TotalsEqualTurnSums ==
    (hist.starts = 1 /\ db # NoDb) =>
        \A s \in Range(db.sessions) :
            /\ s.total_input_tokens = TurnSum(db.turns, s.id, "input_tokens")
            /\ s.total_output_tokens = TurnSum(db.turns, s.id, "output_tokens")
            /\ s.total_cost = TurnSum(db.turns, s.id, "cost")

C3_SessionStartReplaces ==
    /\ \A st \in Stores : \A sid \in SessionIds :
          Cardinality({i \in 1..Len(st.sessions) : st.sessions[i].id = sid}) <= 1
    /\ (last.ev = "session_start" /\ ~last.caught /\ last.failed = {} /\ db # NoDb) =>
          \E r \in Range(db.sessions) :
              /\ r.id = state.sessionId
              /\ r.started_at = last.t /\ r.ended_at = NULL
              /\ r.total_input_tokens = 0 /\ r.total_output_tokens = 0
              /\ r.total_cost = 0

C3_Witness ==
    /\ hist.replaced /\ last.ev = "session_start" /\ ~last.caught
    /\ db # NoDb /\ \E r \in Range(db.sessions) : r.id = state.sessionId

\* C17: a tool-call row inserted on tool-call start has turn_id equal to the
\* id of the turn open at that moment (started and not yet ended), and null
\* when no turn is open, as after the previous turn's end event.
C17_ToolCallLinkedToOpenTurn ==
    (hist.starts = 1 /\ last.ev = "tool_call" /\ last.acted /\ last.failed = {}) =>
        \A r \in Range(CallRows) : r.id = last.call => r.turn_id = hist.hostTurn

\* C18: after a session-shutdown event has been processed for an active
\* session, the session row's end timestamp is set, the store handle is
\* released, and the correlation state is cleared: session id null, current
\* turn id null, no pending tool-call start times.
C18_ShutdownClearsState ==
    (last.ev = "session_shutdown" /\ last.acted) =>
        /\ file # NoFile /\ \E r \in Range(file.sessions) : r.ended_at = last.t
        /\ db = NoDb
        /\ state.sessionId = NoSession
        /\ state.currentTurnId = NULL
        /\ state.toolCallStarts = NoStarts

\* C19: over any sequence of session-start and session-shutdown events in one
\* process, the backing store is opened (file read, database object created)
\* at most once.
C19_StoreOpenedAtMostOnce == hist.opens <= 1

\* ------------------------------------------------- recorder: tool-call durations
\* sessions with tool calls and results while the clock advances
NextClock ==
    \/ SessionStartAwait("s1", "m1")
    \/ SessionStartResume(1)
    \/ \E id \in {"c1", "c2"} : ToolCall(id)
    \/ \E id \in {"c1", "c2"}, isError \in BOOLEAN : ToolResult(id, isError, <<>>)
    \/ Tick

SpecClock == Init /\ [][NextClock]_vars

\* C20: a tool-result event for a call id with no remembered start time does
\* not fail and records the end timestamp with duration_ms 0; with a remembered
\* start time it records duration_ms = end - start; either way the call id is
\* no longer in the map of start times.
C20_DurationFromRememberedStart ==
    (last.ev = "tool_result" /\ last.acted) =>
        /\ ~last.escaped /\ ~last.caught
        /\ last.call \notin DOMAIN state.toolCallStarts
        /\ \A r \in Range(CallRows) : r.id = last.call =>
              /\ r.ended_at = last.t
              /\ r.duration_ms = IF last.start = NULL THEN 0 ELSE last.t - last.start

C20_Witness ==
    /\ last.ev = "tool_result" /\ last.acted /\ last.start = NULL
    /\ \E r \in Range(CallRows) : r.id = last.call /\ r.duration_ms = 0 /\ r.ended_at = 2
    /\ \E r \in Range(CallRows) : r.id # last.call /\ r.duration_ms = 1

\* ------------------------------------------------- recorder: stored texts
\* one session with user inputs, assistant messages and tool results whose
\* texts lie below, at and above the cap
NextText ==
    \/ hist.starts = 0 /\ SessionStartAwait("s1", "m1")
    \/ SessionStartResume(1)
    \/ \E text \in InputTexts : Input(text)
    \/ TurnStart
    \/ \E content \in Contents : TurnEnd(NoUsage, content)
    \/ ToolCall("c1")
    \/ \E isError \in BOOLEAN, content \in Contents : ToolResult("c1", isError, content)

SpecText == Init /\ [][NextText]_vars

\* the stored text is the text handed in, cut to the cap and marked if longer
StoredAsCapped(stored, raw) ==
    /\ TLen(stored) <= MAX_RESULT_SIZE + TLen(TruncationMarker)
    /\ IF TLen(raw) > MAX_RESULT_SIZE
       THEN /\ Norm(SubSeq(stored, 1, Len(stored) - 2)) = Norm(Substring0(raw, MAX_RESULT_SIZE))
            /\ TLen(SubSeq(stored, 1, Len(stored) - 2)) = MAX_RESULT_SIZE
            /\ SubSeq(stored, Len(stored) - 1, Len(stored)) = TruncationMarker
       ELSE stored = raw

\* C4: a user input, assistant text or tool result text longer than
\* MAX_RESULT_SIZE is stored as its first MAX_RESULT_SIZE characters followed by
\* the truncation marker; no stored text is longer than the cap plus the marker.
C4_TextsTruncatedAtCap ==
    \A st \in Stores :
        /\ \A r \in Range(st.messages) : StoredAsCapped(r.content, r.raw)
        /\ \A r \in Range(st.tool_calls) : StoredAsCapped(r.result_text, r.raw)

C4_Witness ==
    /\ file # NoFile
    /\ \E r \in Range(file.messages) :
          r.role = "user" /\ TLen(r.raw) > MAX_RESULT_SIZE /\ r.content # r.raw
    /\ \E r \in Range(file.messages) :
          r.role = "assistant" /\ TLen(r.raw) > MAX_RESULT_SIZE /\ r.content # r.raw
    /\ \E r \in Range(file.tool_calls) :
          TLen(r.raw) > MAX_RESULT_SIZE /\ r.result_text # r.raw

\* ------------------------------------------------- recorder: failing statements
\* one session in which any statement and any file write may fail
NextFault ==
    \/ SessionStartAwait("s1", "m1")
    \/ SessionStartResume(1)
    \/ Input(TShort)
    \/ SessionShutdown
    \/ TurnStart
    \/ \E content \in {<<>>, <<TextItem(TShort)>>} : TurnEnd(NoUsage, content)
    \/ ToolCall("c1")
    \/ ToolResult("c1", FALSE, <<>>)
    \/ ModelSelect("m1", "m1")

SpecFault == InitFault /\ [][NextFault]_vars

\* the statements and file writes of a handler that passed its guard, in the
\* order of the source; session_start opens the store first when there is none
Statements(l) ==
    CASE l.ev = "session_start" ->
            (IF l.ran # <<>> /\ Head(l.ran) = "schema" THEN <<"schema", "persist">> ELSE <<>>)
            \o <<"insert_session", "persist">>
      [] l.ev = "input" -> <<"insert_message", "persist">>
      [] l.ev = "session_shutdown" -> <<"end_session", "persist">>
      [] l.ev = "turn_start" -> <<"insert_turn">>
      [] l.ev = "turn_end" ->
            <<"update_turn", "add_totals">>
            \o (IF l.msg THEN <<"insert_message">> ELSE <<>>) \o <<"persist">>
      [] l.ev = "tool_call" -> <<"insert_tool_call">>
      [] l.ev = "tool_result" -> <<"update_tool_call", "persist">>
      [] l.ev = "model_select" -> <<"insert_model_change", "persist">>
      [] OTHER -> <<>>

\* the failure was that of the schema script while the store was being opened
SchemaFailed(l) ==
    l.ev = "session_start" /\ l.ran # <<>> /\ Head(l.ran) = "schema" /\ 1 \in l.failed

\* C5 as stated: when an SQL statement or the file write fails inside a
\* handler, no error leaves the handler and every statement of the handler is
\* still executed.
C5_FailureSwallowedRestRuns ==
    /\ ~last.escaped
    /\ last.failed # {} => last.ran = Statements(last)

\* C5 amended: no error ever leaves a handler; when a statement issued through
\* safeRun or a file write of persistDatabase fails, every statement of the
\* handler is still executed; when the schema script fails while session_start
\* opens the store, the handler's catch block runs and its remaining statements
\* are skipped.
C5_SafeRunFailureSwallowedRestRuns ==
    /\ ~last.escaped
    /\ (last.failed # {} /\ ~SchemaFailed(last)) =>
          ~last.caught /\ last.ran = Statements(last)
    /\ SchemaFailed(last) => last.caught /\ last.ran = <<"schema">>

C5_Witness ==
    /\ last.ev = "turn_end" /\ last.acted /\ 1 \in last.failed
    /\ last.ran = <<"update_turn", "add_totals", "insert_message", "persist">>
    /\ ~last.escaped

\* the session ids in the tables that declare FOREIGN KEY (session_id)
\* REFERENCES sessions(id) (recorder.ts 66-123); no PRAGMA foreign_keys is
\* issued, so SQLite does not enforce the declaration
ChildSessionIds(st) ==
    {r.session_id : r \in Range(st.turns)} \cup {r.session_id : r \in Range(st.tool_calls)}
        \cup {r.session_id : r \in Range(st.messages)}
        \cup {r.session_id : r \in Range(st.model_changes)}

Persisting ==
    {"session_start", "input", "turn_end", "tool_result", "model_select", "session_shutdown"}

\* the handler passed its guard and its closing file write went through
WroteFile(l) ==
    l.acted /\ l.ran # <<>> /\ l.ran[Len(l.ran)] = "persist" /\ Len(l.ran) \notin l.failed

\* C24: after the session-start, input, turn-end, tool-result, model-change
\* and session-shutdown handlers complete with a successful file write, the
\* file is a full snapshot equal to the in-memory store (for session-shutdown,
\* to the store it closes); the turn-start and tool-call-start handlers do not
\* write the file, so their rows reach it only with a later persisting event.
C24_FileIsSnapshotAfterPersistingHandlers ==
    [][ /\ last'.ev \in {"turn_start", "tool_call"} => file' = file
        /\ (last'.ev \in Persisting /\ WroteFile(last')) =>
              IF db' # NoDb THEN file' = Snapshot(db')
              ELSE db # NoDb =>
                     file' = IF 1 \in last'.failed THEN Snapshot(db)
                             ELSE Snapshot(UpdateSessionEnd(db, state.sessionId, now).db)
      ]_vars

C24_Witness ==
    /\ last.ev = "tool_call" /\ last.acted /\ last.failed = {}
    /\ db # NoDb /\ file # NoFile
    /\ \E r \in Range(db.tool_calls) : r.id = last.call
    /\ file.tool_calls = <<>>
    /\ Len(db.turns) > Len(file.turns)

\* C27: while no session is active (before the first session start, after a
\* session shutdown, or after a session start whose store initialisation
\* failed), the input, turn-start, turn-end, tool-call, tool-result,
\* model-select and session-shutdown handlers change neither the store nor the
\* file nor the correlation state.
C27_NoSessionNoChange ==
    [][ ( /\ db = NoDb \/ state.sessionId = NoSession
          /\ last'.ev \in {"input", "turn_start", "turn_end", "tool_call", "tool_result",
                            "model_select", "session_shutdown"} )
        => UNCHANGED <<db, file, state>> ]_vars

C27_Witness ==
    /\ last.ev = "tool_call" /\ ~last.acted
    /\ db # NoDb /\ ~db.schema /\ state.sessionId = NoSession
    /\ state.toolCallStarts = NoStarts

\* ------------------------------------------------- recorder: sessions in one process
\* C23: a turn-end event processed while no current turn is remembered is a
\* no-op: it updates no turn row, leaves the session totals unchanged, inserts
\* no message, writes no file and leaves the correlation state unchanged.
C23_TurnEndWithoutTurnIsNoOp ==
    [][ (state.currentTurnId \in {NULL, 0} /\ last'.ev = "turn_end")
        => UNCHANGED <<db, file, state>> ]_vars

C23_Witness ==
    /\ last.ev = "turn_end" /\ ~last.acted
    /\ db # NoDb /\ state.sessionId # NoSession /\ state.currentTurnId = NULL
    /\ \E r \in Range(db.turns) : r.session_id = state.sessionId /\ r.ended_at = NULL

\* C25: a tool-result event never modifies a tool-call row whose session_id
\* differs from the currently active session, whatever sessions and call ids
\* came before.
C25_ResultLeavesOtherSessionsRows ==
    [][ (last'.ev = "tool_result" /\ last'.acted /\ db # NoDb /\ db' # NoDb) =>
           \A i \in 1..Len(db.tool_calls) :
               db.tool_calls[i].session_id # state.sessionId =>
                   db'.tool_calls[i] = db.tool_calls[i] ]_vars

\* C26: every tool-call row whose ended_at is populated satisfies
\* duration_ms = ended_at - started_at.
C26_DurationIsEndMinusStart ==
    \A st \in Stores : \A r \in Range(st.tool_calls) :
        r.ended_at # NULL => r.duration_ms = r.ended_at - r.started_at

\* the store a resuming session_start handler works on: the open one, or the
\* one initDatabase reads from the file
StoreAtStart(p) == IF p.stage = "dbReady" THEN db ELSE OpenStore(file)

NextLinks ==
    \/ \E sid \in SessionIds : SessionStartAwait(sid, "m1")
    \/ SessionStartResume(1)
    \/ SessionShutdown
    \/ TurnStart
    \/ TurnEnd(NoUsage, <<TextItem(TShort)>>)
    \/ \E id \in {"c1", "c2"} : ToolCall(id)

SpecLinks == Init /\ [][NextLinks]_vars

\* C30: every tool-call row and every assistant message row with a non-null
\* turn_id references a turn row whose session_id equals the row's own
\* session_id, over several sessions in one process.
C30_TurnLinkStaysInSession ==
    \A st \in Stores :
        /\ \A r \in Range(st.tool_calls) : r.turn_id # NULL =>
              \E t \in Range(st.turns) : t.id = r.turn_id /\ t.session_id = r.session_id
        /\ \A r \in Range(st.messages) : (r.role = "assistant" /\ r.turn_id # NULL) =>
              \E t \in Range(st.turns) : t.id = r.turn_id /\ t.session_id = r.session_id

C30_Witness ==
    /\ db # NoDb /\ Len(db.tool_calls) = 2
    /\ db.tool_calls[1].turn_id # NULL /\ db.tool_calls[2].turn_id = NULL
    /\ db.tool_calls[1].session_id # db.tool_calls[2].session_id
    /\ \E r \in Range(db.messages) : r.role = "assistant" /\ r.turn_id # NULL

\* ------------------------------------------------- kagi_search: specification
NextKagi ==
    \/ \E i \in Invocations, quick_answer, tokenOk \in BOOLEAN :
          Execute(i, quick_answer, tokenOk)
    \/ \E i \in Invocations : AuthenticateRejected(i)
    \/ \E i \in Invocations, setCookies \in SetCookieLists, signin \in BOOLEAN :
          AuthenticateResponse(i, setCookies, signin)
    \/ \E i \in Invocations : SearchFailed(i)
    \/ \E i \in Invocations, qa \in {"answer", "nothing", "failed", "not asked"} :
          Completed(i, qa)

\* kagi_search invocations that overlap at their awaits
SpecKagi == Init /\ [][NextKagi]_vars

\* C7 as stated: when the authenticate request, the search request or the
\* quick-answer request of an invocation failed, the cached client is discarded
\* when the invocation ends.
C7_AnyNetworkFailureDiscardsClient ==
    (kagi.fresh /\ (kagi.last.failed \in {"authenticate", "search"}
                    \/ kagi.last.qa = "failed"))
        => kagi.client = NULL

\* C7 amended: a failure of the authenticate request or of the search request
\* ends the invocation with an error result and the cached client discarded; an
\* invocation that found no cached client issues its requests only after the
\* authenticate call on the client it created has succeeded; a failure of the
\* quick-answer request alone ends the invocation without error and leaves the
\* cached client as it was.
C7_AuthOrSearchFailureDiscardsClient ==
    /\ (kagi.fresh /\ kagi.last.failed \in {"authenticate", "search"})
          => kagi.client = NULL /\ kagi.last.isError
    /\ (kagi.fresh /\ kagi.last.failed = "none")
          => kagi.client = kagi.last.before /\ ~kagi.last.isError
    /\ \A i \in Invocations :
          /\ kagi.inv[i].pc = "authenticate" =>
                /\ kagi.inv[i].mine \in 1..Len(kagi.clients)
                /\ kagi.clients[kagi.inv[i].mine].auth = "new"
                /\ ~kagi.inv[i].issued
          /\ (kagi.inv[i].mine # NULL /\ kagi.inv[i].issued) =>
                kagi.clients[kagi.inv[i].mine].auth = "ok"

C7_Witness ==
    /\ kagi.fresh /\ kagi.last.failed = "none" /\ kagi.last.qa = "failed"
    /\ kagi.client = 2
    /\ kagi.inv[kagi.last.i].mine = 2

\* C8: every search and quick-answer request leaves through a client whose
\* authenticate call had completed successfully when the request was issued.
C8_RequestsOnlyThroughAuthenticatedClient ==
    kagi.req # NoRequest => kagi.req.auth = "ok"

\* C9: a request issued through a client after its authenticate call succeeded
\* carries as Cookie header the first segment of every Set-Cookie header of the
\* authenticate response, in the order of the response, separated by "; ".
C9_CookieHeaderIsCapturedCookies ==
    (kagi.req # NoRequest /\ kagi.req.auth = "ok") =>
        LET sc == kagi.clients[kagi.req.k].setCookies
            h == kagi.req.cookie
        IN /\ Len(h) = IF sc = <<>> THEN 0 ELSE 2 * Len(sc) - 1
           /\ \A j \in 1..Len(sc) : h[2 * j - 1] = sc[j][1]
           /\ \A j \in 1..(Len(sc) - 1) : h[2 * j] = <<"; ">>

C9_Witness ==
    /\ kagi.req # NoRequest /\ kagi.req.auth = "ok"
    /\ Len(kagi.clients[kagi.req.k].setCookies) = 2
    /\ Len(kagi.req.cookie) = 3

\* ------------------------------------------------- tools: specification
ExitCodes == {0, 1, 2, NULL}

NextTools ==
    \/ \E op \in Operations, session_id \in PexpectIds, timeout \in BOOLEAN,
          limit \in AstGrepLimits : ToolInvoke(op, session_id, timeout, limit)
    \/ \E outcome \in {"ok", "status", "rejected"} : FetchSettles(outcome)
    \/ \E ok \in BOOLEAN : BodySettles(ok)
    \/ \E ok \in BOOLEAN : KagiSettles(ok)
    \/ \E spawned \in BOOLEAN, code \in ExitCodes, stderr \in {<<>>, SomeStderr}, stdout \in Stdouts :
          GhSettles(spawned, code, stderr, stdout)
    \/ \E spawned \in BOOLEAN, code \in ExitCodes, stderr \in {<<>>, SomeStderr}, stdout \in Stdouts :
          AstGrepSettles(spawned, code, stderr, stdout)
    \/ \E ok \in BOOLEAN : PueueStatus(ok)
    \/ \E ok \in BOOLEAN, id \in PexpectIds : PexpectStart(ok, id)
    \/ \E ok \in BOOLEAN : PexpectList(ok)
    \/ \E ok \in BOOLEAN : PexpectStop(ok)
    \/ \E code \in ExitCodes, stderr \in {<<>>, SomeStderr} : ExecCloses(code, stderr)
    \/ ExecSpawnError
    \/ ExecTimeout
    \/ ChildExits

\* tool invocations, one after another
SpecTools == Init /\ [][NextTools]_vars

\* C6: an invocation of any tool in which the underlying network call or
\* subprocess failed ends by returning an error result; no failure leaves the
\* tool as an exception.
C6_EveryFailureReturnsErrorResult ==
    /\ tool.result.kind # "exception"
    /\ (tool.pc = "done" /\ tool.failed) => tool.result = ErrorResult

\* C11: when pexpect_exec's timeout elapses before the child has closed, the
\* invocation returns a timeout error, and once it has returned the child is
\* no longer running.
C11_TimeoutErrorAndChildGone ==
    (tool.op = "pexpect_exec" /\ tool.pc = "done" /\ "kill" \in Range(tool.calls)) =>
        /\ tool.result = ErrorResult
        /\ tool.message = <<Prefix("pexpect_exec")>> \o TimedOut
        /\ tool.child \notin {"running", "signalled"}

\* the pexpect-cli processes an invocation started
PexpectCliRuns(t) == {i \in DOMAIN t.cmds : t.cmds[i][1] = "pexpect-cli"}

\* C12: in each pexpect tool, no pexpect-cli subcommand or subprocess is
\* started unless `pueue status` of the same invocation succeeded first; when
\* it fails the invocation returns an error result carrying the remediation
\* message and starts nothing further.
C12_NothingBeforePueueCheck ==
    tool.op \in PexpectOperations =>
        /\ tool.cmds[1] = <<"pueue", "status">>
        /\ (PexpectCliRuns(tool) # {} \/ tool.stdin) => tool.pueue = "ok"
        /\ tool.pueue = "failed" =>
              /\ tool.pc = "done" /\ tool.result = ErrorResult
              /\ \E i \in DOMAIN tool.message : <<tool.message[i]>> = Remediation
              /\ tool.cmds = <<(<<"pueue", "status">>)>>
              /\ ~tool.stdin

C12_Witness ==
    /\ tool.op = "pexpect_exec" /\ tool.pueue = "failed" /\ tool.pc = "done"
    /\ tool.result = ErrorResult /\ tool.sessions = {"a1"} /\ tool.session_id = "a1"

\* the List() of this invocation returned a descriptor with the requested id
Listed(t) == t.listDone /\ \E i \in DOMAIN t.listed : t.listed[i].id = t.session_id

\* C13: pexpect_exec spawns the execution child only after the list of the
\* same invocation returned a descriptor with the requested session id; when
\* none is listed it returns a not-found error result, spawns no child and
\* sends no code.
C13_ExecOnlyForListedSession ==
    tool.op = "pexpect_exec" =>
        /\ (tool.stdin \/ <<"pexpect-cli", tool.session_id>> \in Range(tool.cmds)) =>
              Listed(tool)
        /\ (tool.listDone /\ ~Listed(tool)) =>
              /\ tool.pc = "done" /\ tool.result = ErrorResult
              /\ tool.message = NotFound(tool.session_id)
              /\ ~tool.stdin
              /\ \A i \in DOMAIN tool.cmds : Len(tool.cmds[i]) = 2

C13_Witness ==
    /\ tool.op = "pexpect_exec" /\ tool.listDone /\ ~Listed(tool)
    /\ tool.listed # <<>> /\ tool.pc = "done" /\ tool.message = NotFound("b2")

\* the stop subcommands an invocation ran
Stops(t) == {i \in DOMAIN t.cmds : t.cmds[i][1] = "pexpect-cli" /\ t.cmds[i][2] = "--stop"}

\* C14: pexpect_stop for a session id that is not listed returns a non-error
\* result saying not found or already stopped and does not run the stop
\* subcommand; for a listed id it runs the stop subcommand exactly once, for
\* that id.
C14_StopOnlyListedOnce ==
    (tool.op = "pexpect_stop" /\ tool.listDone) =>
        IF Listed(tool)
        THEN /\ Cardinality(Stops(tool)) = 1
             /\ \A i \in Stops(tool) : tool.cmds[i] = <<"pexpect-cli", "--stop", tool.session_id>>
        ELSE /\ tool.pc = "done" /\ tool.result = Content
             /\ tool.message = NotFoundOrStopped(tool.session_id)
             /\ Stops(tool) = {}

C14_Witness ==
    /\ tool.op = "pexpect_stop" /\ Listed(tool) /\ tool.pc = "done"
    /\ tool.result = Content /\ Cardinality(Stops(tool)) = 1
    /\ tool.session_id \notin tool.sessions

C16_PresentedAreFirstLimit ==
    (tool.op = "ast_grep" /\ tool.pc = "done" /\ tool.result = Content) =>
        LET lim == IF tool.limit.given THEN tool.limit.value ELSE DEFAULT_LIMIT
            n == IF lim < 0 THEN 0
                 ELSE IF lim < Len(tool.matches) THEN lim ELSE Len(tool.matches)
        IN /\ Len(tool.presented) <= n
           /\ tool.presented = SubSeq(tool.matches, 1, n)

\* C29: in pexpect_exec, for every order of the child's close event, its spawn
\* error event and the timeout timer, the operation settles exactly once, with
\* the outcome of the one that fires first, and events that fire later leave
\* that outcome as it is; when close or error fires before the timeout the
\* timer is cancelled, so no kill signal is sent and no timeout error is
\* reported afterwards.
C29_FirstEventSettlesAndCancelsTimer ==
    (tool.op = "pexpect_exec" /\ tool.stdin) =>
        /\ tool.settled = "none" <=> tool.pc = "exec"
        /\ tool.settled = "none" => tool.late = 0
        /\ tool.settled = "timeout" =>
              /\ tool.timeout /\ tool.timer = "fired"
              /\ tool.result = ErrorResult
              /\ tool.message = <<Prefix("pexpect_exec")>> \o TimedOut
        /\ tool.settled = "error" =>
              /\ tool.result = ErrorResult
              /\ tool.message = <<Prefix("pexpect_exec"), "spawn pexpect-cli ENOENT">>
        /\ tool.settled = "close" =>
              \/ tool.result = Content /\ tool.message = <<"stdout">>
              \/ tool.result = ErrorResult
                    /\ tool.message = <<Prefix("pexpect_exec")>> \o SomeStderr
        /\ tool.settled \in {"close", "error"} =>
              /\ tool.timer = IF tool.timeout THEN "cleared" ELSE "none"
              /\ "kill" \notin Range(tool.calls)
              /\ tool.child # "signalled"

C29_Witness ==
    /\ tool.op = "pexpect_exec" /\ tool.pc = "done" /\ tool.timeout
    /\ tool.settled = "error" /\ tool.late = 1 /\ tool.timer = "cleared"
    /\ tool.child = "none" /\ tool.result = ErrorResult

\* ------------------------------------------------- kagi result parsing: specification
InitParse ==
    /\ RecInit /\ faults = 0 /\ kagi = KagiInit /\ tool = ToolInit
    /\ \E html \in Htmls, limit \in Limits : parse = ParseStart(html, limit)

NextParse == SearchLoop \/ SearchReturn

\* the parsing loop of search on every body and limit
SpecParse == InitParse /\ [][NextParse]_vars

Eligible(block) == block.title.found /\ block.url.found

\* C10: every result comes from a block with title and URL, with the empty
\* snippet when the block has no snippet sub-block; blocks without title or URL
\* give no result; the results are in document order, at most limit, and when
\* the loop has ended they are the first eligible blocks of the body.
C10_ParsedResultsDegradeAndRespectLimit ==
    LET r == parse.results
        h == parse.html
    IN /\ Len(r) <= parse.limit
       /\ \A j \in 1..Len(r) :
             /\ r[j].src \in 1..Len(h)
             /\ Eligible(h[r[j].src])
             /\ r[j].url = h[r[j].src].url.inner
             /\ ~h[r[j].src].snippet.found => r[j].snippet = <<>>
             /\ \A t \in 1..Len(r[j].snippet) : r[j].snippet[t].k # "tag"
             /\ Cardinality({b \in 1..r[j].src : Eligible(h[b])}) = j
       /\ \A j \in 1..(Len(r) - 1) : r[j].src < r[j + 1].src
       /\ parse.pc \in {"done", "returned"} =>
             \/ Len(r) = parse.limit
             \/ Len(r) = Cardinality({b \in 1..Len(h) : Eligible(h[b])})

C10_Witness ==
    /\ parse.pc = "returned"
    /\ Len(parse.results) = 2 /\ parse.limit = 2 /\ Len(parse.html) = 3
    /\ ~Eligible(parse.html[1])
    /\ ~parse.html[2].snippet.found /\ parse.results[1].snippet = <<>>
    /\ parse.results[2].src = 3

\* ------------------------------------------------- kagi quick answer
\* KagiClient.getQuickAnswer, kagi-search.ts 132-184.  The response body is
\* kept as the sequence of its lines (text.split("\n")); a line holds whether
\* it starts with "new_message.json:", whether the rest parses as JSON, and
\* the md member of the parsed object.  The references the function parses out
\* of references_md do not decide what it returns and are left out.
QuickLines ==
    { [prefixed |-> FALSE, json |-> FALSE, hasMd |-> FALSE, md |-> ""],
      [prefixed |-> TRUE, json |-> FALSE, hasMd |-> FALSE, md |-> ""],
      [prefixed |-> TRUE, json |-> TRUE, hasMd |-> FALSE, md |-> ""],
      [prefixed |-> TRUE, json |-> TRUE, hasMd |-> TRUE, md |-> ""],
      [prefixed |-> TRUE, json |-> TRUE, hasMd |-> TRUE, md |-> "A"],
      [prefixed |-> TRUE, json |-> TRUE, hasMd |-> TRUE, md |-> "B"] }

\* kagi-search.ts 159: data.md || ""
Markdown(line) == IF line.hasMd THEN line.md ELSE ""

\* null, and a QuickAnswer
NoAnswer == [present |-> FALSE, markdown |-> ""]
Answer(markdown) == [present |-> TRUE, markdown |-> markdown]

\* kagi-search.ts 132-137: the call, before its request is answered; arrived
\* is whether fetch and response.text() both settle with a value
QuickStart(arrived, lines) ==
    [ pc |-> "fetch", arrived |-> arrived, lines |-> lines, pos |-> 1,
      answer |-> NoAnswer, caught |-> FALSE, raised |-> FALSE ]

\* the loop body that gives up at the first line with the prefix
QuickLineFirstOnly(q) ==
    LET line == q.lines[q.pos] IN
    IF ~line.prefixed THEN [q EXCEPT !.pos = @ + 1]
    ELSE IF ~line.json THEN [q EXCEPT !.pc = "returned", !.caught = TRUE]
    ELSE IF Markdown(line) # "" THEN [q EXCEPT !.pc = "returned",
                                               !.answer = Answer(Markdown(line))]
    ELSE [q EXCEPT !.pc = "returned"]

\* kagi-search.ts 155-177: one run of the loop body.  JSON.parse throws into
\* the catch of 179-181; a line with the prefix and no markdown returns
\* nothing and the loop goes on
QuickLine(q) ==
    LET line == q.lines[q.pos] IN
    IF ~line.prefixed THEN [q EXCEPT !.pos = @ + 1]
    ELSE IF ~line.json THEN [q EXCEPT !.pc = "returned", !.caught = TRUE]
    ELSE IF Markdown(line) # "" THEN [q EXCEPT !.pc = "returned",
                                               !.answer = Answer(Markdown(line))]
    ELSE [q EXCEPT !.pos = @ + 1]

\* kagi-search.ts 138-152: the request settles; a rejection is caught (179-181)
QuickFetch ==
    /\ parse.pc = "fetch"
    /\ parse' = IF parse.arrived THEN [parse EXCEPT !.pc = "loop"]
                ELSE [parse EXCEPT !.pc = "returned", !.caught = TRUE]
    /\ ParseFrame

\* kagi-search.ts 154-183: the loop over the lines, and return null after it
QuickLoop ==
    /\ parse.pc = "loop"
    /\ parse' = IF parse.pos > Len(parse.lines) THEN [parse EXCEPT !.pc = "returned"]
                ELSE QuickLine(parse)
    /\ ParseFrame

InitQuick ==
    /\ RecInit /\ faults = 0 /\ kagi = KagiInit /\ tool = ToolInit
    /\ \E arrived \in BOOLEAN, lines \in SeqsUpTo(QuickLines, MaxLines) :
          parse = QuickStart(arrived, lines)

NextQuick == QuickFetch \/ QuickLoop

\* getQuickAnswer on every response of at most MaxLines lines
SpecQuick == InitQuick /\ [][NextQuick]_vars

\* the lines that start with the prefix, and those among them at which the
\* function ends: the JSON does not parse, or the markdown is not empty
PrefixedLines(q) == {i \in 1..Len(q.lines) : q.lines[i].prefixed}
EndingLines(q) ==
    {i \in PrefixedLines(q) : ~q.lines[i].json \/ Markdown(q.lines[i]) # ""}
First(S) == CHOOSE i \in S : \A j \in S : i <= j

\* C22 as stated: the quick answer is taken from the first response line that
\* starts with new_message.json:; if there is no such line, or the markdown of
\* that first line is empty, or the request throws, the operation returns
\* nothing; it raises no error.
C22_AnswerFromFirstPrefixedLine ==
    parse.pc = "returned" =>
        /\ ~parse.raised
        /\ parse.answer =
              IF ~parse.arrived \/ PrefixedLines(parse) = {} THEN NoAnswer
              ELSE LET line == parse.lines[First(PrefixedLines(parse))] IN
                   IF line.json /\ Markdown(line) # "" THEN Answer(Markdown(line))
                   ELSE NoAnswer

\* C22 amended: the quick answer is taken from the first line with the prefix
\* whose markdown is not empty, lines with the prefix and empty markdown before
\* it being passed over; the operation returns nothing if there is no such
\* line, if a line with the prefix reached before it does not parse as JSON,
\* or if the request throws; it raises no error.
C22_AnswerFromFirstPrefixedLineWithMarkdown ==
    parse.pc = "returned" =>
        /\ ~parse.raised
        /\ parse.answer =
              IF ~parse.arrived \/ EndingLines(parse) = {} THEN NoAnswer
              ELSE LET line == parse.lines[First(EndingLines(parse))] IN
                   IF line.json THEN Answer(Markdown(line)) ELSE NoAnswer

C22_Witness ==
    /\ parse.pc = "returned" /\ parse.arrived /\ Len(parse.lines) = 3
    /\ parse.lines[1].prefixed /\ parse.lines[1].json /\ Markdown(parse.lines[1]) = ""
    /\ parse.lines[2].prefixed /\ Markdown(parse.lines[2]) = "A"
    /\ parse.lines[3].prefixed /\ Markdown(parse.lines[3]) = "B"
    /\ parse.answer = Answer("A")

====
